---- MODULE Spec2Model ----
(***************************************************************************)
(* A model of the build-own-zod schema engine.                             *)
(*                                                                         *)
(* Two encodings of the engine are modelled:                               *)
(*   - the class encoding (ZodType and its subclasses, with the            *)
(*     optional/or/and combinators and the min/max refinements), and       *)
(*   - the functional encoding of src/schema.ts (string, number, unknown,  *)
(*     array, object as object literals with a parse closure).             *)
(*                                                                         *)
(* JavaScript values are tagged records; a parse outcome is either a       *)
(* normal return or a thrown error object (its class name and message).    *)
(***************************************************************************)
EXTENDS Integers, Sequences, FiniteSets, TLC

(***************************************************************************)
(* Bounds of the model.                                                    *)
(***************************************************************************)
\* deepest nesting of combinators/containers in a schema under test
MaxDepth == 2
\* largest refinement parameter, string length and number drawn as input
MaxN == 2
\* longest input array
MaxItems == 2
\* most schema objects allocated in the refinement-chain specification
MaxSchemas == 5

(***************************************************************************)
(* JavaScript values.                                                      *)
(***************************************************************************)
Undefined == [t |-> "undefined"]

Null == [t |-> "null"]

Str(s) == [t |-> "string", s |-> s]

Num(n) == [t |-> "number", n |-> n]

Arr(items) == [t |-> "array", items |-> items]

\* an object is its own enumerable properties in insertion order
Obj(entries) == [t |-> "object", entries |-> entries]

Entry(k, v) == [k |-> k, v |-> v]

\* the typeof operator
TypeOf(value) ==
    CASE value.t = "string" -> "string"
      [] value.t = "number" -> "number"
      [] value.t = "undefined" -> "undefined"
      [] OTHER -> "object"

\* Array.isArray
IsArray(value) == value.t = "array"

\* Object.entries(value): own enumerable string-keyed properties, in order;
\* for an array these are its indices
ObjectEntries(value) ==
    IF value.t = "array"
    THEN [i \in 1..Len(value.items) |-> Entry(ToString(i - 1), value.items[i])]
    ELSE value.entries

RECURSIVE Lookup(_, _, _)
\* the value of property k among the entries from position i on
Lookup(entries, k, i) ==
    IF i > Len(entries) THEN <<>>
    ELSE IF entries[i].k = k THEN <<entries[i].v>>
    ELSE Lookup(entries, k, i + 1)

\* recordValue[k]: a missing property reads as undefined
Get(value, k) ==
    LET found == Lookup(ObjectEntries(value), k, 1)
    IN IF found = <<>> THEN Undefined ELSE found[1]

(***************************************************************************)
(* Outcomes of a call: a returned value or a thrown error object.          *)
(***************************************************************************)
Return(value) == [kind |-> "return", value |-> value]

Throw(name, message) ==
    [kind |-> "throw", error |-> [name |-> name, message |-> message]]

\* error instanceof TypeError
IsTypeError(error) == error.name = "TypeError"

RECURSIVE Join(_, _)
\* Array.prototype.join over the messages of a list of errors
Join(errors, sep) ==
    IF Len(errors) = 0 THEN ""
    ELSE IF Len(errors) = 1 THEN errors[1].message
    ELSE errors[1].message \o sep \o Join(Tail(errors), sep)

\* `Invalid values: \n ${messages}`
InvalidValues(errors) == "Invalid values: \n " \o Join(errors, "\n")

(***************************************************************************)
(* Checkers: a message and a predicate over the primitive value.  The      *)
(* predicates the engine builds are the four bounds; a definition handed   *)
(* to create() may carry any function, which may also throw.               *)
(***************************************************************************)
Checker(message, pred, n) == [message |-> message, pred |-> pred, n |-> n]

\* the checker ZodString.min(min) appends
StringMinChecker(min) ==
    Checker("Must be at least " \o ToString(min) \o " characters", "length >=", min)

\* the checker ZodString.max(max) appends
StringMaxChecker(max) ==
    Checker("Must be at most " \o ToString(max) \o " characters", "length <=", max)

\* the checker ZodNumber.min(min) appends
NumberMinChecker(min) == Checker("Must be at least " \o ToString(min), ">=", min)

\* the checker ZodNumber.max(max) appends
NumberMaxChecker(max) == Checker("Must be at most " \o ToString(max), "<=", max)

\* error classes a user-supplied checker function is modelled to throw
FaultNames == {"RangeError", "TypeError"}

FaultMessage == "checker fault"

\* a user-supplied checker whose function throws an error of class name
ThrowingChecker(name) == Checker("custom", "throws " \o name, 0)

CheckerThrows(checker) == checker.pred \in {"throws " \o name : name \in FaultNames}

\* the error a throwing checker raises
Fault(checker) ==
    Throw(CHOOSE name \in FaultNames : checker.pred = "throws " \o name, FaultMessage)

\* checker.checker(value) for a checker that returns
CheckerHolds(checker, value) ==
    CASE checker.pred = "length >=" -> Len(value.s) >= checker.n
      [] checker.pred = "length <=" -> Len(value.s) <= checker.n
      [] checker.pred = ">=" -> value.n >= checker.n
      [] checker.pred = "<=" -> value.n <= checker.n

RECURSIVE RunCheckersAll(_, _, _, _)
\* a loop that keeps going after a failure and reports the last one
RunCheckersAll(checkers, value, i, last) ==
    IF i > Len(checkers) THEN last
    ELSE IF CheckerThrows(checkers[i]) THEN Fault(checkers[i])
    ELSE IF ~CheckerHolds(checkers[i], value)
    THEN RunCheckersAll(checkers, value, i + 1, Throw("Error", checkers[i].message))
    ELSE RunCheckersAll(checkers, value, i + 1, last)

RunCheckersLast(checkers, value, i) ==
    RunCheckersAll(checkers, value, i, Return(value))

RECURSIVE RunCheckers(_, _, _)
\* for (const checker of checkers) { if (!checker.checker(value)) throw ... }
\* followed by return value
RunCheckers(checkers, value, i) ==
    IF i > Len(checkers) THEN Return(value)
    ELSE IF CheckerThrows(checkers[i]) THEN Fault(checkers[i])
    ELSE IF ~CheckerHolds(checkers[i], value) THEN Throw("Error", checkers[i].message)
    ELSE RunCheckers(checkers, value, i + 1)

(***************************************************************************)
(* Schemas of the class encoding.                                          *)
(***************************************************************************)
ZodUnknown == [type |-> "unknown"]

\* checkers is this.definition?.checkers ?? []
ZodString(checkers) == [type |-> "string", checkers |-> checkers]

ZodNumber(checkers) == [type |-> "number", checkers |-> checkers]

ZodOptional(type) == [type |-> "optional", inner |-> type]

ZodUnion(types) == [type |-> "union", types |-> types]

ZodIntersection(left, right) == [type |-> "intersection", left |-> left, right |-> right]

ZodArray(element) == [type |-> "array", element |-> element]

\* fields: the entries of the field mapping, in insertion order
ZodObject(fields) == [type |-> "object", fields |-> fields]

\* ZodType.optional
optional(this) == ZodOptional(this)

\* ZodType.or
or(this, type) == ZodUnion(<<this, type>>)

\* ZodType.and
and(this, type) == ZodIntersection(this, type)

(***************************************************************************)
(* parse of the class encoding.                                            *)
(***************************************************************************)
RECURSIVE Parse(_, _)

ZodUnknownParse(value) == Return(value)

ZodStringParse(checkers, value) ==
    IF TypeOf(value) # "string" THEN Throw("TypeError", "Not a string")
    ELSE RunCheckers(checkers, value, 1)

ZodNumberParse(checkers, value) ==
    IF TypeOf(value) # "number" THEN Throw("TypeError", "Not a number")
    ELSE RunCheckers(checkers, value, 1)

ZodOptionalParse(type, value) ==
    IF value.t = "undefined" THEN Return(Undefined)
    ELSE Parse(type, value)

RECURSIVE ZodUnionLoop(_, _, _, _)
\* the for loop of ZodUnion.parse from branch i on, then the code after it
ZodUnionLoop(types, value, i, errors) ==
    IF i > Len(types)
    THEN IF Len(errors) = Len(types)
         THEN Throw("Error", InvalidValues(errors))
         ELSE Return(Undefined)
    ELSE LET r == Parse(types[i], value)
         IN IF r.kind = "return" THEN r
            ELSE IF IsTypeError(r.error)
            THEN ZodUnionLoop(types, value, i + 1, Append(errors, r.error))
            ELSE ZodUnionLoop(types, value, i + 1, errors)

ZodUnionParse(types, value) == ZodUnionLoop(types, value, 1, <<>>)

\* what one try/catch block of ZodIntersection.parse adds to errors
Caught(r) ==
    IF r.kind = "throw" /\ IsTypeError(r.error) THEN <<r.error>> ELSE <<>>

ZodIntersectionParse(left, right, value) ==
    LET errors == Caught(Parse(left, value)) \o Caught(Parse(right, value))
    IN IF Len(errors) = 2
       THEN Throw("Error", InvalidValues(errors))
       ELSE Return(value)

RECURSIVE ZodArrayLoopAll(_, _, _, _)
\* a loop that parses every element and raises the last failure
ZodArrayLoopAll(element, value, i, last) ==
    IF i > Len(value.items) THEN last
    ELSE LET r == Parse(element, value.items[i])
         IN ZodArrayLoopAll(element, value, i + 1, IF r.kind = "throw" THEN r ELSE last)

ZodArrayLoopLast(element, value, i) ==
    ZodArrayLoopAll(element, value, i, Return(value))

RECURSIVE ZodArrayLoop(_, _, _)
\* for (const v of value) this.element.parse(v); return value
ZodArrayLoop(element, value, i) ==
    IF i > Len(value.items) THEN Return(value)
    ELSE LET r == Parse(element, value.items[i])
         IN IF r.kind = "throw" THEN r
            ELSE ZodArrayLoop(element, value, i + 1)

ZodArrayParse(element, value) ==
    IF ~IsArray(value) THEN Throw("TypeError", "Not an array")
    ELSE ZodArrayLoop(element, value, 1)

RECURSIVE ZodObjectLoop(_, _, _)
\* for (const [k, v] of Object.entries(this.fields)) v.parse(recordValue[k])
ZodObjectLoop(fields, value, i) ==
    IF i > Len(fields) THEN Return(value)
    ELSE LET r == Parse(fields[i].v, Get(value, fields[i].k))
         IN IF r.kind = "throw" THEN r
            ELSE ZodObjectLoop(fields, value, i + 1)

ZodObjectParse(fields, value) ==
    IF TypeOf(value) # "object" \/ value.t \in {"null", "undefined"}
    THEN Throw("Error", "Not an object")
    ELSE ZodObjectLoop(fields, value, 1)

\* schema.parse(value), dispatched on the schema's class
Parse(schema, value) ==
    CASE schema.type = "unknown" -> ZodUnknownParse(value)
      [] schema.type = "string" -> ZodStringParse(schema.checkers, value)
      [] schema.type = "number" -> ZodNumberParse(schema.checkers, value)
      [] schema.type = "optional" -> ZodOptionalParse(schema.inner, value)
      [] schema.type = "union" -> ZodUnionParse(schema.types, value)
      [] schema.type = "intersection" ->
            ZodIntersectionParse(schema.left, schema.right, value)
      [] schema.type = "array" -> ZodArrayParse(schema.element, value)
      [] schema.type = "object" -> ZodObjectParse(schema.fields, value)

(***************************************************************************)
(* The functional encoding (schema.ts): object literals with a parse       *)
(* closure; failures are ZodTypeError objects.                             *)
(***************************************************************************)
FnUnknown == [type |-> "unknown"]

FnString == [type |-> "string"]

FnNumber == [type |-> "number"]

FnArray(element) == [type |-> "array", element |-> element]

FnObject(fields) == [type |-> "object", fields |-> fields]

RECURSIVE FnParse(_, _)

FnUnknownParse(value) == Return(value)

FnStringParse(value) ==
    IF TypeOf(value) # "string" THEN Throw("ZodTypeError", "Invalid string")
    ELSE Return(value)

FnNumberParse(value) ==
    IF TypeOf(value) # "number" THEN Throw("ZodTypeError", "Invalid number")
    ELSE Return(value)

RECURSIVE FnArrayMap(_, _, _, _)
\* value.map((item) => element.parse(item)): the new array, or the first throw
FnArrayMap(element, value, i, mapped) ==
    IF i > Len(value.items) THEN Return(Arr(mapped))
    ELSE LET r == FnParse(element, value.items[i])
         IN IF r.kind = "throw" THEN r
            ELSE FnArrayMap(element, value, i + 1, Append(mapped, r.value))

FnArrayParse(element, value) ==
    IF ~IsArray(value) THEN Throw("ZodTypeError", "Invalid array")
    ELSE FnArrayMap(element, value, 1, <<>>)

\* fields[key].parse(value): reading parse of a missing field is a TypeError
FnFieldParse(fields, key, value) ==
    LET found == Lookup(fields, key, 1)
    IN IF found = <<>>
       THEN Throw("TypeError", "Cannot read properties of undefined (reading 'parse')")
       ELSE FnParse(found[1], value)

RECURSIVE FnObjectForEach(_, _, _, _)
\* Object.entries(recordValue).forEach(([key, value]) => fields[key].parse(value))
FnObjectForEach(fields, value, entries, i) ==
    IF i > Len(entries) THEN Return(value)
    ELSE LET r == FnFieldParse(fields, entries[i].k, entries[i].v)
         IN IF r.kind = "throw" THEN r
            ELSE FnObjectForEach(fields, value, entries, i + 1)

FnObjectParse(fields, value) ==
    IF TypeOf(value) # "object" \/ value.t = "null"
    THEN Throw("ZodTypeError", "Invalid object")
    ELSE FnObjectForEach(fields, value, ObjectEntries(value), 1)

FnParse(schema, value) ==
    CASE schema.type = "unknown" -> FnUnknownParse(value)
      [] schema.type = "string" -> FnStringParse(value)
      [] schema.type = "number" -> FnNumberParse(value)
      [] schema.type = "array" -> FnArrayParse(schema.element, value)
      [] schema.type = "object" -> FnObjectParse(schema.fields, value)

(***************************************************************************)
(* Inputs.                                                                 *)
(***************************************************************************)
RECURSIVE Chars(_)
\* a string of n characters
Chars(n) == IF n = 0 THEN "" ELSE "a" \o Chars(n - 1)

\* values placed in arrays and record fields
ItemValues == {Str(Chars(MaxN - 1)), Str(Chars(MaxN)), Num(MaxN)}

PrimitiveValues == {Undefined, Null, Num(MaxN - 1)} \cup ItemValues

RECURSIVE Tuples(_, _)
\* the sequences over S of length at most n
Tuples(S, n) ==
    IF n = 0 THEN {<<>>}
    ELSE LET shorter == Tuples(S, n - 1)
         IN shorter \cup {Append(t, x) : t \in shorter, x \in S}

ArrayValues == {Arr(items) : items \in Tuples(ItemValues, MaxItems)}

RecordValues ==
    {Obj(<<>>)}
    \cup {Obj(<<Entry("a", x)>>) : x \in ItemValues}
    \cup {Obj(<<Entry("a", x), Entry("extra", Num(MaxN))>>) : x \in ItemValues}
    \cup {Obj(<<Entry("a", x), Entry("b", y)>>) : x \in ItemValues, y \in ItemValues}

NestedValues ==
    {Arr(<<v>>) : v \in {Arr(<<x>>) : x \in ItemValues}}
    \cup {Arr(<<Obj(<<Entry("a", x)>>)>>) : x \in ItemValues}
    \cup {Obj(<<Entry("a", Arr(<<x>>))>>) : x \in ItemValues}
    \cup {Obj(<<Entry("a", Obj(<<Entry("a", x)>>))>>) : x \in ItemValues}

Values == PrimitiveValues \cup ArrayValues \cup RecordValues \cup NestedValues

(***************************************************************************)
(* Schemas under test are built by the engine's own constructors.          *)
(***************************************************************************)
\* string(), number(), unknown(), string().min(n), and a string schema
\* created with a definition whose checker throws
ClassLeaves ==
    {ZodUnknown, ZodString(<<>>), ZodNumber(<<>>), ZodString(<<StringMinChecker(MaxN)>>)}
    \cup {ZodString(<<ThrowingChecker(name)>>) : name \in FaultNames}

\* the schemas handed to or() and and() as the other operand
Operands == {ZodString(<<>>), ZodNumber(<<>>), ZodString(<<StringMinChecker(MaxN)>>)}

\* the schemas declared for a second field b
ClassFieldSchemas == {optional(ZodNumber(<<>>)), ZodString(<<>>)}

FnLeaves == {FnUnknown, FnString, FnNumber}

RECURSIVE Depth(_)
Depth(schema) ==
    CASE schema.type \in {"unknown", "string", "number"} -> 0
      [] schema.type = "optional" -> 1 + Depth(schema.inner)
      [] schema.type = "array" -> 1 + Depth(schema.element)
      [] schema.type = "union" ->
            1 + (IF Depth(schema.types[1]) > Depth(schema.types[2])
                 THEN Depth(schema.types[1]) ELSE Depth(schema.types[2]))
      [] schema.type = "intersection" ->
            1 + (IF Depth(schema.left) > Depth(schema.right)
                 THEN Depth(schema.left) ELSE Depth(schema.right))
      [] schema.type = "object" -> 1 + Depth(schema.fields[1].v)

(***************************************************************************)
(* State.                                                                  *)
(*   engine, schema  the encoding in use and the schema under test         *)
(*   input, result   the last call of parse on it: argument and outcome    *)
(*   arrays          the checker arrays allocated so far (by reference)    *)
(*   objects         the leaf schema objects allocated by create(); each   *)
(*                   holds its class and its definition: the index of its  *)
(*                   checkers array in arrays, 0 when it has no definition *)
(*   call            the last refinement call: method, receiver, argument  *)
(***************************************************************************)
VARIABLES engine, schema, input, result, arrays, objects, call

vars == <<engine, schema, input, result, arrays, objects, call>>

NoResult == [kind |-> "none"]

NoCall == [method |-> "none", this |-> 0, n |-> 0]

Init ==
    /\ engine \in {"class", "functional"}
    /\ schema \in (IF engine = "class" THEN ClassLeaves ELSE FnLeaves)
    /\ input = Undefined
    /\ result = NoResult
    /\ arrays = <<>>
    /\ objects = <<>>
    /\ call = NoCall

\* composition time: the schema under test becomes next
Build(next) ==
    /\ result = NoResult
    /\ Depth(schema) < MaxDepth
    /\ schema' = next
    /\ input' = Undefined
    /\ result' = NoResult
    /\ UNCHANGED <<engine, arrays, objects, call>>

Optional ==
    /\ engine = "class"
    /\ Build(optional(schema))

Or ==
    /\ engine = "class"
    /\ \E other \in Operands :
          \/ Build(or(schema, other))
          \/ Build(or(other, schema))

And ==
    /\ engine = "class"
    /\ \E other \in Operands :
          \/ Build(and(schema, other))
          \/ Build(and(other, schema))

Array ==
    /\ engine = "class"
    /\ Build(ZodArray(schema))

Object ==
    /\ engine = "class"
    /\ \/ Build(ZodObject(<<Entry("a", schema)>>))
       \/ \E b \in ClassFieldSchemas :
             Build(ZodObject(<<Entry("a", schema), Entry("b", b)>>))

FnArrayOf ==
    /\ engine = "functional"
    /\ Build(FnArray(schema))

FnObjectOf ==
    /\ engine = "functional"
    /\ \/ Build(FnObject(<<Entry("a", schema)>>))
       \/ \E b \in FnLeaves :
             Build(FnObject(<<Entry("a", schema), Entry("b", b)>>))

\* validation time: schema.parse(value) on the finished schema
DoParse ==
    /\ result = NoResult
    /\ \E value \in Values :
          /\ input' = value
          /\ result' = (IF engine = "class" THEN Parse(schema, value)
                        ELSE FnParse(schema, value))
    /\ UNCHANGED <<engine, schema, arrays, objects, call>>

Next ==
    \/ Optional
    \/ Or
    \/ And
    \/ Array
    \/ Object
    \/ FnArrayOf
    \/ FnObjectOf
    \/ DoParse

Spec == Init /\ [][Next]_vars

(***************************************************************************)
(* Refinement chains.  min and max read the receiver's checkers array and  *)
(* hand a new array to create(); arrays are held by reference, so the      *)
(* model keeps them in a heap.                                             *)
(***************************************************************************)
\* this.definition?.checkers ?? []
CheckersOf(this) ==
    IF objects[this].definition = 0 THEN <<>> ELSE arrays[objects[this].definition]

\* the schema object this, as a schema value
SchemaAt(this) ==
    IF objects[this].class = "ZodString"
    THEN ZodString(CheckersOf(this))
    ELSE ZodNumber(CheckersOf(this))

\* a refinement that pushes onto the receiver's own array and shares it
RefineInPlace(this, checker) ==
    IF objects[this].definition = 0
    THEN [arrays |-> Append(arrays, <<checker>>),
          objects |-> Append(objects, [class |-> objects[this].class,
                                       definition |-> Len(arrays) + 1])]
    ELSE [arrays |-> [arrays EXCEPT ![objects[this].definition] = Append(@, checker)],
          objects |-> Append(objects, [class |-> objects[this].class,
                                       definition |-> objects[this].definition])]

\* create({checkers: [...checkers, checker]}): a new array holding the
\* receiver's checkers and the new one, in a new schema object
Refine(this, checker) ==
    [arrays |-> Append(arrays, Append(CheckersOf(this), checker)),
     objects |-> Append(objects, [class |-> objects[this].class,
                                  definition |-> Len(arrays) + 1])]

\* one call of min or max on the schema object this
Call(method, class, this, n, checker) ==
    /\ result = NoResult
    /\ Len(objects) < MaxSchemas
    /\ objects[this].class = class
    /\ arrays' = Refine(this, checker).arrays
    /\ objects' = Refine(this, checker).objects
    /\ call' = [method |-> method, this |-> this, n |-> n]
    /\ UNCHANGED <<engine, schema, input, result>>

StringMin ==
    \E this \in DOMAIN objects, min \in 0..MaxN :
        Call("ZodString.min", "ZodString", this, min, StringMinChecker(min))

StringMax ==
    \E this \in DOMAIN objects, max \in 0..MaxN :
        Call("ZodString.max", "ZodString", this, max, StringMaxChecker(max))

NumberMin ==
    \E this \in DOMAIN objects, min \in 0..MaxN :
        Call("ZodNumber.min", "ZodNumber", this, min, NumberMinChecker(min))

NumberMax ==
    \E this \in DOMAIN objects, max \in 0..MaxN :
        Call("ZodNumber.max", "ZodNumber", this, max, NumberMaxChecker(max))

LeafInputs ==
    {Undefined, Null}
    \cup {Str(Chars(n)) : n \in 0..(MaxN + 1)}
    \cup {Num(n) : n \in 0..(MaxN + 1)}

\* validation time: parse(value) on one of the schema objects
ParseLeaf ==
    /\ result = NoResult
    /\ \E this \in DOMAIN objects, value \in LeafInputs :
          /\ schema' = SchemaAt(this)
          /\ input' = value
          /\ result' = Parse(SchemaAt(this), value)
    /\ UNCHANGED <<engine, arrays, objects, call>>

\* string(), number(), and a string schema created with a definition whose
\* second checker throws
InitRefine ==
    /\ engine = "class"
    /\ schema = ZodUnknown
    /\ input = Undefined
    /\ result = NoResult
    /\ arrays = << <<StringMinChecker(1), ThrowingChecker("RangeError")>> >>
    /\ objects = << [class |-> "ZodString", definition |-> 0],
                    [class |-> "ZodNumber", definition |-> 0],
                    [class |-> "ZodString", definition |-> 1] >>
    /\ call = NoCall

NextRefine ==
    \/ StringMin
    \/ StringMax
    \/ NumberMin
    \/ NumberMax
    \/ ParseLeaf

SpecRefine == InitRefine /\ [][NextRefine]_vars

(***************************************************************************)
(* Properties.                                                             *)
(***************************************************************************)
Parsed == result.kind # "none"

Returns(r) == r.kind = "return"

Throws(r) == r.kind = "throw"

\* parse in the encoding in use
EngineParse(s, value) ==
    IF engine = "class" THEN Parse(s, value) ELSE FnParse(s, value)

\* C1: Union([A, B]).parse(v) succeeds iff A.parse(v) or B.parse(v) succeeds;
\* when A succeeds the union returns A's result; when every branch fails the
\* union fails rather than returning a value.
UnionSucceedsIffSomeBranch ==
    (engine = "class" /\ Parsed /\ schema.type = "union") =>
        LET a == Parse(schema.types[1], input)
            b == Parse(schema.types[2], input)
        IN /\ Returns(result) <=> (Returns(a) \/ Returns(b))
           /\ Returns(a) => result = a
           /\ (Throws(a) /\ Throws(b)) => Throws(result)

\* C2: Intersection(A, B).parse(v) succeeds iff both A.parse(v) and
\* B.parse(v) succeed, and on success returns v unchanged; when exactly one
\* child fails the intersection fails.
IntersectionSucceedsIffBoth ==
    (engine = "class" /\ Parsed /\ schema.type = "intersection") =>
        LET a == Parse(schema.left, input)
            b == Parse(schema.right, input)
        IN /\ Returns(result) <=> (Returns(a) /\ Returns(b))
           /\ Returns(result) => result.value = input

\* the outcome of the schema declared for field i on the record's value for
\* that key (undefined when the key is missing)
FieldOutcome(i) == EngineParse(schema.fields[i].v, Get(input, schema.fields[i].k))

\* C3: in both encodings Object(F).parse(r) on a record r fails whenever some
\* declared field's schema rejects r's value for its key (undefined when the
\* key is missing), and succeeds when every declared field's schema accepts.
ObjectValidatesDeclaredFields ==
    (Parsed /\ schema.type = "object" /\ input.t = "object") =>
        (Throws(result) <=> \E i \in DOMAIN schema.fields : Throws(FieldOutcome(i)))

DeclaredKeys == {schema.fields[i].k : i \in DOMAIN schema.fields}

RECURSIVE Declared(_)
\* the entries of a record whose keys the schema under test declares
Declared(entries) ==
    IF entries = <<>> THEN <<>>
    ELSE IF Head(entries).k \in DeclaredKeys
    THEN <<Head(entries)>> \o Declared(Tail(entries))
    ELSE Declared(Tail(entries))

\* C4: in both encodings keys of the input record that the Object schema
\* does not declare are ignored: parse has the same success/failure outcome
\* on a record as on that record without its undeclared keys.
UndeclaredKeysIgnored ==
    (Parsed /\ schema.type = "object" /\ input.t = "object") =>
        result.kind = EngineParse(schema, Obj(Declared(input.entries))).kind

\* C5: idempotence: if S.parse(v) returns w then S.parse(w) returns a value
\* equal to w.
ParseIdempotent ==
    (Parsed /\ Returns(result)) =>
        EngineParse(schema, result.value) = Return(result.value)

\* an error raised by something other than the engine's own validation
IsFault(r) == Throws(r) /\ r.error.message = FaultMessage

\* the children of the union or intersection under test, in order
Branches ==
    IF schema.type = "union" THEN schema.types ELSE <<schema.left, schema.right>>

\* C6: Union and Intersection catch and aggregate exactly the validation
\* failures of their branches (when every branch fails with one, the
\* combinator fails with all their messages joined); a fault of any other
\* kind raised while a branch is parsed propagates out of parse.
CombinatorsCatchOnlyValidationFailures ==
    (engine = "class" /\ Parsed /\ schema.type \in {"union", "intersection"}) =>
        LET a == Parse(Branches[1], input)
            b == Parse(Branches[2], input)
            bRuns == schema.type = "intersection" \/ Throws(a)
        IN /\ IsFault(a) => result = a
           /\ (~IsFault(a) /\ bRuns /\ IsFault(b)) => result = b
           /\ (Throws(a) /\ Throws(b) /\ ~IsFault(a) /\ ~IsFault(b)) =>
                 result = Throw("Error", InvalidValues(<<a.error, b.error>>))

\* the indices of the input array's elements that the element schema rejects
RejectedItems ==
    {i \in DOMAIN input.items : Throws(EngineParse(schema.element, input.items[i]))}

FirstRejected == CHOOSE i \in RejectedItems : \A j \in RejectedItems : i <= j

ObjectRejectsNonRecords ==
    (Parsed /\ schema.type = "object" /\ input.t # "object") =>
        /\ Throws(result)
        /\ result.error.message = "Not an object"
        /\ result.error.name = Parse(ZodString(<<>>), Undefined).error.name

\* the checkers of the leaf schema under test that the input does not pass:
\* the predicate is false, or the checker function throws
Unpassed ==
    {i \in DOMAIN schema.checkers :
        \/ CheckerThrows(schema.checkers[i])
        \/ ~CheckerHolds(schema.checkers[i], input)}

FirstUnpassed == CHOOSE i \in Unpassed : \A j \in Unpassed : i <= j

\* C9: a String or Number schema runs its checkers in append order, only
\* after the primitive-type check passed; parse fails at the first checker
\* whose predicate is false, with that checker's message in a failure that is
\* not the type mismatch one, evaluates no later checker, and returns the
\* value iff every checker passes.
CheckersRunInOrderUntilFirstFailure ==
    (Parsed /\ schema.type \in {"string", "number"}) =>
        IF TypeOf(input) # schema.type
        THEN /\ Throws(result)
             /\ result.error.name = "TypeError"
             /\ result.error.message \in {"Not a string", "Not a number"}
        ELSE /\ Unpassed = {} <=> Returns(result)
             /\ Returns(result) => result.value = input
             /\ (Unpassed # {} /\ ~CheckerThrows(schema.checkers[FirstUnpassed])) =>
                   /\ result = Throw("Error", schema.checkers[FirstUnpassed].message)
                   /\ ~IsTypeError(result.error)

\* a value of the right kind that does not pass two checkers of a chain, with
\* different messages, has been parsed and the failure carries the first one's
CheckersWitness ==
    /\ Parsed
    /\ schema.type \in {"string", "number"}
    /\ TypeOf(input) = schema.type
    /\ Cardinality(Unpassed) > 1
    /\ \E later \in Unpassed :
          schema.checkers[later].message # schema.checkers[FirstUnpassed].message
    /\ ~CheckerThrows(schema.checkers[FirstUnpassed])
    /\ result = Throw("Error", schema.checkers[FirstUnpassed].message)

\* the inputs the schema object this accepts
Accepted(this) == {value \in LeafInputs : Returns(Parse(SchemaAt(this), value))}

\* the checker the last refinement call appends
CalledChecker(c) ==
    CASE c.method = "ZodString.min" -> StringMinChecker(c.n)
      [] c.method = "ZodString.max" -> StringMaxChecker(c.n)
      [] c.method = "ZodNumber.min" -> NumberMinChecker(c.n)
      [] c.method = "ZodNumber.max" -> NumberMaxChecker(c.n)

\* the checker list of the schema object this in a heap
HeapCheckers(arrs, objs, this) ==
    IF objs[this].definition = 0 THEN <<>> ELSE arrs[objs[this].definition]

\* C7: refinement is non-destructive: each min/max call returns a new schema
\* whose checker list is the receiver's list with exactly one checker
\* appended, and every existing schema (the receiver included) keeps its
\* checker list and its accepted-value set.
RefinementNonDestructive ==
    [][(objects' # objects) =>
          /\ Len(objects') = Len(objects) + 1
          /\ \A this \in DOMAIN objects :
                /\ objects'[this] = objects[this]
                /\ CheckersOf(this)' = CheckersOf(this)
                /\ Accepted(this)' = Accepted(this)
          /\ HeapCheckers(arrays', objects', Len(objects')) =
                Append(CheckersOf(call'.this), CalledChecker(call'))]_vars

\* a schema derived from a refined schema exists next to its receiver
RefinementWitness ==
    /\ call.method # "none"
    /\ CheckersOf(call.this) # <<>>
    /\ Len(CheckersOf(Len(objects))) = Len(CheckersOf(call.this)) + 1
    /\ \E other \in DOMAIN objects :
          /\ other # call.this
          /\ other # Len(objects)
          /\ objects[other].definition # 0

====
